---- MODULE Spec2Model ----
(***************************************************************************)
(* Model of the MP3 multiple-LSB steganography codec                       *)
(* (src/src/stegano/lsb.py) and of the extended Vigenere cipher            *)
(* (src/src/stegano/vigenere.py).                                          *)
(*                                                                         *)
(* Bytes are integers 0..255, byte strings are sequences of bytes.         *)
(* Python offsets are 0-based: the byte at Python offset p of a buffer b   *)
(* is b[p + 1] here.  A region (s, e) is the half-open Python range.       *)
(***************************************************************************)
EXTENDS Integers, Sequences, FiniteSets, TLC

\* ------------------------------------------------------------------------
\* Bounds of the model
\* ------------------------------------------------------------------------
MaxPayloadLen == 2
MaxDataLen == 3

\* ------------------------------------------------------------------------
\* Generic helpers on bytes and sequences
\* ------------------------------------------------------------------------
Pow2(n) == 2 ^ n

Min(a, b) == IF a < b THEN a ELSE b

\* b[lo:hi] of Python (0-based, half-open, clipped to the buffer)
Slice(b, lo, hi) ==
    LET h == Min(hi, Len(b))
    IN  IF lo >= h THEN << >> ELSE [i \in 1..(h - lo) |-> b[lo + i]]

\* int.from_bytes(b, "big")
RECURSIVE from_bytes_big(_)
from_bytes_big(b) ==
    IF Len(b) = 0 THEN 0
    ELSE 256 * from_bytes_big(SubSeq(b, 1, Len(b) - 1)) + b[Len(b)]

\* n.to_bytes(4, "big")
to_bytes4(n) ==
    << (n \div 16777216) % 256, (n \div 65536) % 256, (n \div 256) % 256, n % 256 >>

\* ------------------------------------------------------------------------
\* Extended Vigenere 256                                     lsb.py 14-21
\* ------------------------------------------------------------------------
vigenere256_encrypt(data, key) ==
    IF Len(key) = 0 THEN data
    ELSE [i \in 1..Len(data) |-> (data[i] + key[((i - 1) % Len(key)) + 1]) % 256]

\* variant: the key index restarts at 0 in every chunk
chunk_decrypt_local_index(raw, kb, written) ==
    IF Len(kb) > 0
    THEN [i \in 1..Len(raw) |-> (raw[i] - kb[((i - 1) % Len(kb)) + 1]) % 256]
    ELSE raw

\* The subtraction the extractor applies to one chunk `raw` that starts at
\* absolute payload index `written`                          lsb.py 356-362
chunk_decrypt(raw, kb, written) ==
    IF Len(kb) > 0
    THEN [i \in 1..Len(raw) |->
             (raw[i] - kb[((written + (i - 1)) % Len(kb)) + 1]) % 256]
    ELSE raw

\* ExtendedVigenereCipher.encrypt / decrypt               vigenere.py 16-68
\* An empty key raises ValueError: no byte string is returned.
ValueError == << -2 >>

\* variant: an empty key returns the data, as the codec's function does
ExtendedVigenereCipher_encrypt_empty_key_identity(data, key) ==
    IF Len(key) = 0 THEN data
    ELSE [i \in 1..Len(data) |-> (data[i] + key[((i - 1) % Len(key)) + 1]) % 256]

ExtendedVigenereCipher_encrypt(data, key) ==
    IF Len(key) = 0 THEN ValueError
    ELSE [i \in 1..Len(data) |-> (data[i] + key[((i - 1) % Len(key)) + 1]) % 256]

\* variant: the key index runs one position ahead of the data index
ExtendedVigenereCipher_decrypt_shifted(encrypted_data, key) ==
    IF Len(key) = 0 THEN ValueError
    ELSE [i \in 1..Len(encrypted_data) |->
             (encrypted_data[i] - key[(i % Len(key)) + 1]) % 256]

ExtendedVigenereCipher_decrypt(encrypted_data, key) ==
    IF Len(key) = 0 THEN ValueError
    ELSE [i \in 1..Len(encrypted_data) |->
             (encrypted_data[i] - key[((i - 1) % Len(key)) + 1]) % 256]

\* ------------------------------------------------------------------------
\* Bit helpers                                               lsb.py 31-32
\* ------------------------------------------------------------------------
\* variant: the bits of every byte are taken least significant first
bytes_to_bits_lsb_first(b) ==
    [i \in 1..(8 * Len(b)) |->
        (b[((i - 1) \div 8) + 1] \div Pow2((i - 1) % 8)) % 2]

bytes_to_bits(b) ==
    [i \in 1..(8 * Len(b)) |->
        (b[((i - 1) \div 8) + 1] \div Pow2(7 - ((i - 1) % 8))) % 2]

\* ------------------------------------------------------------------------
\* CRC-32 (zlib.crc32), on 32-bit words kept as bit sequences, most
\* significant bit first, because a 32-bit unsigned value does not fit
\* TLC's integers.
\* ------------------------------------------------------------------------
Bits32(hi, lo) ==
    [i \in 1..32 |-> IF i <= 16 THEN (hi \div Pow2(16 - i)) % 2
                                ELSE (lo \div Pow2(32 - i)) % 2]

XorBits(a, b) == [i \in 1..32 |-> (a[i] + b[i]) % 2]

ShiftRight1(a) == [i \in 1..32 |-> IF i = 1 THEN 0 ELSE a[i - 1]]

CrcPoly == Bits32(60856, 33568)     \* 0xEDB88320

AllOnes32 == [i \in 1..32 |-> 1]

Zero32 == [i \in 1..32 |-> 0]

ByteOfBits(a, k) ==
    LET base == 8 * (k - 1)
    IN  128 * a[base + 1] + 64 * a[base + 2] + 32 * a[base + 3] + 16 * a[base + 4]
        + 8 * a[base + 5] + 4 * a[base + 6] + 2 * a[base + 7] + a[base + 8]

\* the four big-endian bytes of a 32-bit word: crc.to_bytes(4, "big")
BitsToBytes4(a) == << ByteOfBits(a, 1), ByteOfBits(a, 2), ByteOfBits(a, 3), ByteOfBits(a, 4) >>

RECURSIVE CrcShift(_, _)
CrcShift(c, k) ==
    IF k = 0 THEN c
    ELSE CrcShift(IF c[32] = 1 THEN XorBits(ShiftRight1(c), CrcPoly)
                               ELSE ShiftRight1(c), k - 1)

CrcByte(c, byte) == CrcShift(XorBits(c, Bits32(0, byte)), 8)

RECURSIVE CrcRun(_, _, _)
CrcRun(c, data, i) ==
    IF i > Len(data) THEN c ELSE CrcRun(CrcByte(c, data[i]), data, i + 1)

\* crc32(data, value): `value` and the result are 32-bit words
crc32(data, value) ==
    XorBits(CrcRun(XorBits(value, AllOnes32), data, 1), AllOnes32)

\* ------------------------------------------------------------------------
\* MP3 helpers                                               lsb.py 36-108
\* ------------------------------------------------------------------------
\* None entries of the tables are NoneVal.
NoneVal == -1

BITRATE_TABLE(version) ==
    IF version = "1"
    THEN << NoneVal, 32, 40, 48, 56, 64, 80, 96, 112, 128, 160, 192, 224, 256, 320, NoneVal >>
    ELSE << NoneVal, 8, 16, 24, 32, 40, 48, 56, 64, 80, 96, 112, 128, 144, 160, NoneVal >>

SR_TABLE(version) ==
    IF version = "1" THEN << 44100, 48000, 32000, NoneVal >>
    ELSE IF version = "2" THEN << 22050, 24000, 16000, NoneVal >>
    ELSE << 11025, 12000, 8000, NoneVal >>

\* variant: 8 bits are taken from every size byte
read_synchsafe32_8_bits(b) ==
    (b[1] % 128) * 16777216 + b[2] * 65536 + b[3] * 256 + b[4]

read_synchsafe32(b) ==
    (b[1] % 128) * 2097152 + (b[2] % 128) * 16384 + (b[3] % 128) * 128 + (b[4] % 128)

skip_id3v2(mp3) ==
    IF Len(mp3) >= 10 /\ Slice(mp3, 0, 3) = << 73, 68, 51 >>
    THEN Min(10 + read_synchsafe32(Slice(mp3, 6, 10)), Len(mp3))
    ELSE 0

\* The header dictionary, or NoHdr for None.
NoHdr == [frame_len |-> 0, side_len |-> 0]

\* variant: the coefficient is 144 for every version
parse_header_at_coef_144(mp3, off) ==
    IF off + 4 > Len(mp3) THEN NoHdr
    ELSE
    LET b1 == mp3[off + 1]
        b2 == mp3[off + 2]
        b3 == mp3[off + 3]
        b4 == mp3[off + 4]
        ver_bits == (b2 \div 8) % 4
        layer_bits == (b2 \div 2) % 4
        version == IF ver_bits = 3 THEN "1" ELSE IF ver_bits = 2 THEN "2" ELSE "2.5"
        bitrate_idx == (b3 \div 16) % 16
        sr_idx == (b3 \div 4) % 4
        padding == (b3 \div 2) % 2
        channel_mode == (b4 \div 64) % 4
        br_kbps == BITRATE_TABLE(version)[bitrate_idx + 1]
        sr == SR_TABLE(version)[sr_idx + 1]
        coef == 144
        frame_len == ((coef * (br_kbps * 1000)) \div sr) + padding
        side_len == IF version = "1"
                    THEN (IF channel_mode = 3 THEN 17 ELSE 32)
                    ELSE (IF channel_mode = 3 THEN 9 ELSE 17)
    IN  IF b1 # 255 \/ (b2 \div 32) # 7 THEN NoHdr
        ELSE IF layer_bits # 1 THEN NoHdr
        ELSE IF ver_bits = 1 THEN NoHdr
        ELSE IF bitrate_idx = 0 \/ bitrate_idx = 15 THEN NoHdr
        ELSE IF sr_idx = 3 THEN NoHdr
        ELSE IF br_kbps = NoneVal \/ sr = NoneVal THEN NoHdr
        ELSE IF frame_len < 24 THEN NoHdr
        ELSE [frame_len |-> frame_len, side_len |-> side_len]

parse_header_at(mp3, off) ==
    IF off + 4 > Len(mp3) THEN NoHdr
    ELSE
    LET b1 == mp3[off + 1]
        b2 == mp3[off + 2]
        b3 == mp3[off + 3]
        b4 == mp3[off + 4]
        ver_bits == (b2 \div 8) % 4
        layer_bits == (b2 \div 2) % 4
        version == IF ver_bits = 3 THEN "1" ELSE IF ver_bits = 2 THEN "2" ELSE "2.5"
        bitrate_idx == (b3 \div 16) % 16
        sr_idx == (b3 \div 4) % 4
        padding == (b3 \div 2) % 2
        channel_mode == (b4 \div 64) % 4
        br_kbps == BITRATE_TABLE(version)[bitrate_idx + 1]
        sr == SR_TABLE(version)[sr_idx + 1]
        coef == IF version = "1" THEN 144 ELSE 72
        frame_len == ((coef * (br_kbps * 1000)) \div sr) + padding
        side_len == IF version = "1"
                    THEN (IF channel_mode = 3 THEN 17 ELSE 32)
                    ELSE (IF channel_mode = 3 THEN 9 ELSE 17)
    IN  IF b1 # 255 \/ (b2 \div 32) # 7 THEN NoHdr
        ELSE IF layer_bits # 1 THEN NoHdr
        ELSE IF ver_bits = 1 THEN NoHdr
        ELSE IF bitrate_idx = 0 \/ bitrate_idx = 15 THEN NoHdr
        ELSE IF sr_idx = 3 THEN NoHdr
        ELSE IF br_kbps = NoneVal \/ sr = NoneVal THEN NoHdr
        ELSE IF frame_len < 24 THEN NoHdr
        ELSE [frame_len |-> frame_len, side_len |-> side_len]

max_main_bytes_per_frame == 512

\* variant: a failed parse leaves the offset where it is
resync_offset_stuck(off) == off

\* line 118: off += 1 after a failed parse
resync_offset(off) == off + 1

\* variant: a frame is never taken to be cut off
frame_cut_off_never(off, fsize, L) == FALSE

\* the test of line 121: the frame at off would extend past the buffer end
frame_cut_off(off, fsize, L) == off + fsize > L

\* variant: the region runs to the end of the frame, without the cap
frame_region_uncapped(off, fsize, side_len) ==
    LET s == off + 4 + side_len
        e == off + fsize
    IN  IF s < e THEN << [s |-> s, e |-> e] >> ELSE << >>

\* lines 123-126: the region of the frame at off, as a list of one region,
\* or of none when the region is empty
frame_region(off, fsize, side_len) ==
    LET s == off + 4 + side_len
        e == Min(off + fsize, s + max_main_bytes_per_frame)
    IN  IF s < e THEN << [s |-> s, e |-> e] >> ELSE << >>

\* The while loop of _collect_frames_and_regions, from scan offset `off`
\* with the regions collected so far.
RECURSIVE ScanLoop(_, _, _)
ScanLoop(mp3, off, regions) ==
    IF ~(off + 4 <= Len(mp3)) THEN regions
    ELSE
    LET hdr == parse_header_at(mp3, off)
        fsize == hdr.frame_len
    IN  IF hdr = NoHdr THEN ScanLoop(mp3, resync_offset(off), regions)
        ELSE IF frame_cut_off(off, fsize, Len(mp3)) THEN regions
        ELSE ScanLoop(mp3, off + fsize, regions \o frame_region(off, fsize, hdr.side_len))

collect_frames_and_regions(mp3) == ScanLoop(mp3, skip_id3v2(mp3), << >>)

\* sum(e - s for s, e in regs)
RECURSIVE SumRegions(_, _)
SumRegions(regs, r) ==
    IF r > Len(regs) THEN 0 ELSE (regs[r].e - regs[r].s) + SumRegions(regs, r + 1)

total_usable_bytes(regs) == SumRegions(regs, 1)

\* stream.extend(mp3[s:e]) for every region                 lsb.py 310-312
RECURSIVE StreamFrom(_, _, _)
StreamFrom(mp3, regs, r) ==
    IF r > Len(regs) THEN << >>
    ELSE Slice(mp3, regs[r].s, regs[r].e) \o StreamFrom(mp3, regs, r + 1)

usable_stream(mp3, regs) == StreamFrom(mp3, regs, 1)

\* ------------------------------------------------------------------------
\* Header & constants                                        lsb.py 132-135
\* ------------------------------------------------------------------------
MAGIC == << 77, 76, 83, 66, 118, 51 >>     \* b"MLSBv3"

FLAG_ENCRYPTED == 1

FLAG_RANDOM_START == 2

HEADER_LEN_FIXED == 22

CHUNK == 65536

\* ------------------------------------------------------------------------
\* Seed from key and start offset                    lsb.py 25-27, 261, 317
\* random.Random(_key_to_seed(key)).randrange(0, total): SHA-256 and the
\* Mersenne twister are not re-implemented; the table holds the values the
\* source expression returns for the keys and usable-byte totals of the
\* model (keys are UTF-8 byte strings: "" , "x", "s3").
\* ------------------------------------------------------------------------
KeyEmpty == << >>

KeyX == << 120 >>

KeyS3 == << 115, 51 >>

Keys == { KeyEmpty, KeyX, KeyS3 }

seeded_offset(key, total) ==
    IF key = KeyEmpty
    THEN (IF total = 104 THEN 34 ELSE IF total = 160 THEN 68 ELSE 137)
    ELSE IF key = KeyX
    THEN (IF total = 104 THEN 13 ELSE IF total = 160 THEN 27 ELSE 55)
    ELSE (IF total = 104 THEN 13 ELSE IF total = 160 THEN 27 ELSE 54)

\* ------------------------------------------------------------------------
\* Metadata                                               lsb.py 155-201
\* The metadata dictionary is restricted to its "filename" entry, the only
\* one the codec reads back (the others are file attributes handed to
\* chmod/utime); a file name is a byte string.
\* ------------------------------------------------------------------------
file_metadata(path) == [filename |-> path]

JsonPrefix == << 123, 34, 102, 105, 108, 101, 110, 97, 109, 101, 34, 58, 34 >>   \* {"filename":"

JsonSuffix == << 34, 125 >>                                                    \* "}

\* json.dumps(meta, separators=(",", ":")).encode("utf-8")
json_dumps(meta) == JsonPrefix \o meta.filename \o JsonSuffix

NoMeta == [filename |-> << >>, ok |-> FALSE]

\* json.loads(meta_bytes.decode("utf-8")): the documents json_dumps writes
\* are parsed back, every other text is a parse failure (NoMeta).
json_loads(b) ==
    LET n == Len(b) - Len(JsonPrefix) - Len(JsonSuffix)
        name == Slice(b, Len(JsonPrefix), Len(JsonPrefix) + n)
    IN  IF /\ n >= 0
           /\ Slice(b, 0, Len(JsonPrefix)) = JsonPrefix
           /\ Slice(b, Len(JsonPrefix) + n, Len(b)) = JsonSuffix
           /\ \A i \in 1..n : name[i] >= 32 /\ name[i] < 127 /\ name[i] # 34 /\ name[i] # 92
        THEN [filename |-> name, ok |-> TRUE]
        ELSE NoMeta

\* out_path None or empty: the recorded file name; otherwise the given path
resolve_output_path(out_path, meta) ==
    IF out_path = << >> THEN meta.filename ELSE out_path

\* ------------------------------------------------------------------------
\* Embedding                                              lsb.py 213-297
\* ------------------------------------------------------------------------
embed_flags(encrypt, random_start) ==
    (IF encrypt THEN FLAG_ENCRYPTED ELSE 0) + (IF random_start THEN FLAG_RANDOM_START ELSE 0)

embed_data(payload_plain, key, encrypt) ==
    IF encrypt THEN vigenere256_encrypt(payload_plain, key) ELSE payload_plain

embed_header(data, meta_json, nlsb, encrypt, random_start) ==
    MAGIC
    \o << embed_flags(encrypt, random_start) % 256 >>
    \o << nlsb % 256 >>
    \o to_bytes4(Len(data))
    \o BitsToBytes4(crc32(data, Zero32))
    \o to_bytes4(Len(meta_json))
    \o << 0, 0 >>
    \o meta_json

embed_message(payload_path, payload_plain, key, nlsb, encrypt, random_start) ==
    LET data == embed_data(payload_plain, key, encrypt)
    IN  embed_header(data, json_dumps(file_metadata(payload_path)),
                     nlsb, encrypt, random_start) \o data

\* value of a bit group, first bit most significant     lsb.py 279-282
RECURSIVE GroupValue(_, _, _, _)
GroupValue(bits, lo, hi, v) ==
    IF lo > hi THEN v ELSE GroupValue(bits, lo + 1, hi, 2 * v + (bits[lo] % 2))

\* variant: the mask clears one bit more than nlsb
write_group_wide_mask(old, nlsb, v) == (old - (old % Pow2(nlsb + 1))) + v

\* mp3_out[pos] = (mp3_out[pos] & mask) | v
write_group(old, nlsb, v) == (old - (old % Pow2(nlsb))) + v

\* The two nested loops of lines 272-286 visit the usable bytes in region
\* order; `passed` counts the skipped ones and every written byte takes the
\* next group, so the usable byte number j (from 0) is skipped when
\* j < start_offset and otherwise receives the group that starts at message
\* bit (j - start_offset) * nlsb, if the message has such a bit.

\* variant: every region is taken to start one byte early
RECURSIVE UsableIndex_early(_, _, _, _)
UsableIndex_early(regs, r, pos, before) ==
    IF r > Len(regs) THEN -1
    ELSE IF regs[r].s - 1 <= pos /\ pos < regs[r].e - 1
    THEN before + (pos - (regs[r].s - 1))
    ELSE UsableIndex_early(regs, r + 1, pos, before + (regs[r].e - regs[r].s))

\* number of usable bytes before position pos, or -1 when pos is in no region
RECURSIVE UsableIndex(_, _, _, _)
UsableIndex(regs, r, pos, before) ==
    IF r > Len(regs) THEN -1
    ELSE IF regs[r].s <= pos /\ pos < regs[r].e THEN before + (pos - regs[r].s)
    ELSE UsableIndex(regs, r + 1, pos, before + (regs[r].e - regs[r].s))

embed_byte(mp3, regs, pos, msg_bits, nlsb, start_offset) ==
    LET j == UsableIndex(regs, 1, pos, 0)
        bits_idx == (j - start_offset) * nlsb
        hi == Min(bits_idx + nlsb, Len(msg_bits))
    IN  IF j < 0 THEN mp3[pos + 1]
        ELSE IF j < start_offset THEN mp3[pos + 1]
        ELSE IF bits_idx >= Len(msg_bits) THEN mp3[pos + 1]
        ELSE write_group(mp3[pos + 1], nlsb, GroupValue(msg_bits, bits_idx + 1, hi, 0))

\* variant: the loops also set the lowest bit of the fourth byte behind the
\* tag, the last header byte of a frame that starts there
embed_loop_buf_header_byte(mp3, regs, msg_bits, nlsb, start_offset) ==
    [i \in 1..Len(mp3) |->
        IF i - 1 = skip_id3v2(mp3) + 3
        THEN (mp3[i] - (mp3[i] % 2)) + 1
        ELSE embed_byte(mp3, regs, i - 1, msg_bits, nlsb, start_offset)]

\* the buffer mp3_out after the loops
embed_loop_buf(mp3, regs, msg_bits, nlsb, start_offset) ==
    [i \in 1..Len(mp3) |-> embed_byte(mp3, regs, i - 1, msg_bits, nlsb, start_offset)]

\* bits_idx after the loops: every written byte advances it by len(group)
embed_loop_bits(total_bytes_md, msg_bits, nlsb, start_offset) ==
    Min(Len(msg_bits), (total_bytes_md - start_offset) * nlsb)

\* No buffer / no file
NoBytes == << -1 >>

\* variant: the start offset is always 0
embed_start_offset_zero(key, random_start, total_bytes_md) == 0

embed_start_offset(key, random_start, total_bytes_md) ==
    IF random_start THEN seeded_offset(key, total_bytes_md) ELSE 0

\* variant: the skipped bytes are not subtracted
embed_cap_bits_no_offset(total_bytes_md, start_offset, nlsb) == total_bytes_md * nlsb

\* cap_bits of line 262
embed_cap_bits(total_bytes_md, start_offset, nlsb) == (total_bytes_md - start_offset) * nlsb

\* variant: a message that fills the capacity exactly is refused
capacity_insufficient_le(cap_bits, msg_len) == cap_bits <= msg_len

\* the test of line 263
capacity_insufficient(cap_bits, msg_len) == cap_bits < msg_len

\* variant: the range test lets nlsb = 5 through
nlsb_invalid_above_5(nlsb) == nlsb < 1 \/ nlsb > 5

\* the test of line 223: nlsb not in {1, 2, 3, 4}
nlsb_invalid(nlsb) == nlsb < 1 \/ nlsb > 4

\* variant: a scan without regions is not reported
no_regions_never(regs) == FALSE

\* the tests of lines 256 and 308: the scanner found no region
no_regions(regs) == Len(regs) = 0

\* embed_file as a function of its inputs: the outcome, the bit counts of a
\* capacity error, start_offset (NoneVal while it is not computed), the
\* working buffer mp3_out (NoBytes while it does not exist) and the bytes
\* written to out_path (NoBytes if none).
embed_file(mp3, payload_path, payload_plain, key, nlsb, encrypt, random_start) ==
    LET message == embed_message(payload_path, payload_plain, key, nlsb, encrypt, random_start)
        msg_bits == bytes_to_bits(message)
        regs == collect_frames_and_regions(mp3)
        total_bytes_md == total_usable_bytes(regs)
        start_offset == embed_start_offset(key, random_start, total_bytes_md)
        cap_bits == embed_cap_bits(total_bytes_md, start_offset, nlsb)
        done == [buf |-> embed_loop_buf(mp3, regs, msg_bits, nlsb, start_offset),
                 bits_idx |-> embed_loop_bits(total_bytes_md, msg_bits, nlsb, start_offset)]
        fail(st, need, have, start) ==
            [status |-> st, need |-> need, have |-> have, start_offset |-> start,
             mp3_out |-> NoBytes, written |-> NoBytes]
    IN  IF nlsb_invalid(nlsb) THEN fail("ValueError", 0, 0, NoneVal)
        ELSE IF no_regions(regs) THEN fail("NoFrames", 0, 0, NoneVal)
        ELSE IF capacity_insufficient(cap_bits, Len(msg_bits))
        THEN fail("Capacity", Len(msg_bits), cap_bits, start_offset)
        ELSE IF done.bits_idx < Len(msg_bits)
        THEN [status |-> "Unexpected", need |-> 0, have |-> 0, start_offset |-> start_offset,
              mp3_out |-> done.buf, written |-> NoBytes]
        ELSE [status |-> "ok", need |-> 0, have |-> 0, start_offset |-> start_offset,
              mp3_out |-> done.buf, written |-> done.buf]

\* ------------------------------------------------------------------------
\* _BitStreamReader                                       lsb.py 395-418
\* Only the low bits_in_buf bits of the unbounded Python integer bitbuf are
\* ever read; the model drops the bits above them when a byte is taken.
\* ------------------------------------------------------------------------
BitStreamReader(start_off) == [pos |-> start_off, bitbuf |-> 0, bits_in_buf |-> 0]

\* the iterations of the while loop that take stream bytes until the buffer
\* holds a whole byte or the stream ends                    lsb.py 408-415
RECURSIVE Refill(_, _, _)
Refill(stream, n, br) ==
    IF br.bits_in_buf < 8 /\ br.pos < Len(stream)
    THEN Refill(stream, n,
                [pos |-> br.pos + 1,
                 bitbuf |-> br.bitbuf * Pow2(n) + (stream[br.pos + 1] % Pow2(n)),
                 bits_in_buf |-> br.bits_in_buf + n])
    ELSE br

RECURSIVE ReadLoop(_, _, _, _, _)
ReadLoop(stream, n, br, out, k) ==
    IF ~(Len(out) < k) THEN [out |-> out, br |-> br]
    ELSE LET b == Refill(stream, n, br)
         IN  IF b.bits_in_buf < 8 THEN [out |-> out, br |-> b]
             ELSE ReadLoop(stream, n,
                           [pos |-> b.pos,
                            bitbuf |-> b.bitbuf % Pow2(b.bits_in_buf - 8),
                            bits_in_buf |-> b.bits_in_buf - 8],
                           Append(out, (b.bitbuf \div Pow2(b.bits_in_buf - 8)) % 256), k)

\* variant: a call starts with an empty bit buffer
BitStreamReader_read_drop_leftover(stream, n, br, k) ==
    ReadLoop(stream, n, [br EXCEPT !.bitbuf = 0, !.bits_in_buf = 0], << >>, k)

\* br.read(k): the bytes returned and the reader afterwards
BitStreamReader_read(stream, n, br, k) == ReadLoop(stream, n, br, << >>, k)

\* ------------------------------------------------------------------------
\* Inputs of the model: cover files, payload files, keys
\* ------------------------------------------------------------------------
Fill(n, seed) == [i \in 1..n |-> ((i + seed) * 37 + 11) % 256]

\* one frame: the 4 header bytes and frame_len - 4 further bytes
Frame(b2, b3, b4, frame_len, seed) == << 255, b2, b3, b4 >> \o Fill(frame_len - 4, seed)

\* ID3v2 tag of 13 bytes, then two MPEG-2 stereo padded frames of 73 bytes:
\* 104 usable bytes
CoverA ==
    << 73, 68, 51, 3, 0, 0, 0, 0, 0, 3, 9, 9, 9 >>
    \o Frame(243, 54, 0, 73, 1) \o Frame(243, 54, 0, 73, 2)

\* MPEG-2.5 mono padded frame (97 bytes), 5 bytes between the frames, MPEG-2
\* stereo padded frame (97 bytes): 160 usable bytes
CoverB ==
    Frame(227, 38, 192, 97, 3) \o << 1, 2, 255, 4, 5 >> \o Frame(243, 70, 0, 97, 4)

\* MPEG-2 stereo padded frame (169 bytes), MPEG-1 mono padded frame (193
\* bytes), then a frame header whose frame is cut off: 320 usable bytes
CoverC ==
    Frame(243, 118, 0, 169, 5) \o Frame(251, 86, 192, 193, 6)
    \o << 255, 243, 54, 0, 7, 7, 7, 7, 7 >>

\* no frame at all
CoverD == Fill(30, 8)

Covers == { CoverA, CoverB, CoverC, CoverD }

AllPayloads ==
    { << >>, << 65 >>, << 65, 66 >>, << 1, 252 >>, << 65, 66, 67 >>, << 9, 8, 254 >> }

Payloads == { p \in AllPayloads : Len(p) <= MaxPayloadLen }

PayloadPath == << 112 >>     \* the payload file is named "p"

\* Files given to extract_file that no embed_file call of the model wrote:
\* a message put into the usable stream of a cover, nlsb bits per byte from
\* start_offset on, as lines 268-286 do
stego_with(mp3, message, nlsb, start_offset) ==
    embed_loop_buf(mp3, collect_frames_and_regions(mp3), bytes_to_bits(message),
                   nlsb, start_offset)

\* a well-formed message (payload "AB", nlsb 4, no flags) and damaged copies
GoodMessage == embed_message(PayloadPath, << 65, 66 >>, KeyEmpty, 4, FALSE, FALSE)

\* payload_len says 20 bytes: the stream of CoverA ends before them (line 353)
FileTruncatedPayload == stego_with(CoverA, [GoodMessage EXCEPT ![12] = 20], 4, 0)

\* meta_len says 100 bytes: the metadata read comes back short (line 335)
FileShortMeta == stego_with(CoverA, [GoodMessage EXCEPT ![20] = 100], 4, 0)

\* the metadata is not JSON (line 337)
FileBadMeta == stego_with(CoverA, [GoodMessage EXCEPT ![23] = 0], 4, 0)

\* header byte 7 says nlsb 2, the message is stored with 4 bits per byte
\* (line 326)
FileWrongNlsb == stego_with(CoverA, [GoodMessage EXCEPT ![8] = 2], 4, 0)

\* the stored checksum is not the payload's (line 372)
FileBadCrc ==
    stego_with(CoverA, [GoodMessage EXCEPT ![13] = (GoodMessage[13] + 1) % 256], 4, 0)

\* a message with a wrong checksum at offset 0 and a well-formed one at the
\* offset seeded by the empty key, both with nlsb 4
FileBadThenGood ==
    stego_with(stego_with(CoverC, [GoodMessage EXCEPT ![13] = (GoodMessage[13] + 1) % 256], 4, 0),
               GoodMessage, 4, seeded_offset(KeyEmpty, 320))

\* two well-formed messages with nlsb 4: payload "AB" at offset 0 and the
\* payload (1, 252) at the offset seeded by the empty key
FileTwoMessages ==
    stego_with(stego_with(CoverC, GoodMessage, 4, 0),
               embed_message(PayloadPath, << 1, 252 >>, KeyEmpty, 4, FALSE, FALSE),
               4, seeded_offset(KeyEmpty, 320))

\* two well-formed messages: payload "AB" with nlsb 4 at offset 0 and the
\* payload (1, 252) with nlsb 2 at the offset seeded by the empty key
FileTwoNlsb ==
    stego_with(stego_with(CoverC, GoodMessage, 4, 0),
               embed_message(PayloadPath, << 1, 252 >>, KeyEmpty, 2, FALSE, FALSE),
               2, seeded_offset(KeyEmpty, 320))

\* Buffers for the scanner alone.  A header that parses (MPEG-1, 320 kbit/s,
\* 44100 Hz: frame_len 1044) but whose frame is longer than the buffer,
\* followed by a whole MPEG-2 frame of 73 bytes
BufferLongFrameFirst ==
    << 9, 9, 255, 251, 224, 0, 9, 9, 9 >> \o Frame(243, 54, 0, 73, 9)

\* bytes without a header, a whole frame, bytes without a header
BufferFrameInJunk == Fill(40, 3) \o Frame(243, 54, 0, 73, 10) \o Fill(30, 5)

\* a whole MPEG-1 frame of 1044 bytes (more main data than the cap), then
\* the shortest frame there is: MPEG-2, 8 kbit/s, 24000 Hz, 24 bytes
BufferBigFrame == Frame(251, 224, 0, 1044, 11) \o Frame(243, 20, 0, 24, 12)

\* Buffers for the header parser alone: every second and fourth byte behind
\* 0xFF that passes or just fails the sync test, every third byte with the
\* private bit clear, mono and stereo; one buffer without 0xFF; one of 3 bytes
HeaderInputs ==
    { << 255, b2, b3, b4 >> :
          b2 \in (223..255) \cup { 0 },
          b3 \in { x \in 0..255 : x % 2 = 0 },
          b4 \in { 0, 192 } }
    \cup { << 127, 251, 144, 0 >>, << 255, 251, 144 >> }

\* the marker "ID3" in a buffer of 5 bytes, too short for a tag header
BufferShortTag == << 73, 68, 51, 3, 0 >>

\* a tag whose size (100) runs past the end of the buffer of 20 bytes
BufferTagPastEnd == << 73, 68, 51, 3, 0, 0, 0, 0, 0, 100 >> \o Fill(10, 13)

\* a tag of size 133 (size bytes with their top bits set, which do not
\* count) that holds a whole frame, then a frame behind the tag
BufferFrameInTag ==
    << 73, 68, 51, 3, 0, 0, 128, 128, 129, 5 >>
    \o Frame(243, 54, 0, 73, 14) \o Fill(60, 15)
    \o Frame(243, 54, 0, 73, 16)

\* byte counts asked of the bit reader alone
ReaderCounts == 0..2

ScanInputs ==
    Covers \cup { BufferLongFrameFirst, BufferFrameInJunk, BufferBigFrame,
                  BufferShortTag, BufferTagPastEnd, BufferFrameInTag }

PreparedFiles ==
    { FileTruncatedPayload, FileShortMeta, FileBadMeta, FileWrongNlsb, FileBadCrc,
      FileBadThenGood, FileTwoMessages, FileTwoNlsb }

NlsbInputs == 0..5

\* data of the cipher round trips
CipherBytes == { 0, 1, 200, 255 }

RECURSIVE SeqsUpTo(_, _)
SeqsUpTo(S, n) ==
    IF n = 0 THEN { << >> }
    ELSE LET shorter == SeqsUpTo(S, n - 1)
         IN  shorter \cup { Append(q, x) : q \in { t \in shorter : Len(t) = n - 1 }, x \in S }

CipherData == SeqsUpTo(CipherBytes, MaxDataLen)

\* Chunk sizes of the extractor's write loop: the program's CHUNK, and sizes
\* below the data lengths of the model so that the loop takes several turns
ChunkSizes == { 1, 2, CHUNK }

\* ------------------------------------------------------------------------
\* State
\* ------------------------------------------------------------------------
VARIABLES
    cover,          \* bytes of the cover file at mp3_path
    emb,            \* the embed_file call: its arguments and its outcome
    stego,          \* bytes of the file at embed_file's out_path, or NoBytes
    pc,             \* position of extract_file: "idle", "cand", "write", "done"
    xkey,           \* key argument of extract_file
    xmp3,           \* extract_file: bytes of the file at its mp3_path, or NoBytes
    stream,         \* extract_file: the flat usable byte stream
    cand_offsets,   \* extract_file: the two candidate start offsets
    cand,           \* extract_file: number of the current (n, off) pair, 1..8
    br,             \* extract_file: the bit reader of the current candidate
    hdr,            \* extract_file: flags, payload_len, crc_hdr of the candidate
    crc_calc,       \* extract_file: running checksum
    written,        \* extract_file: payload bytes written so far
    out_file,       \* extract_file: resolved output path
    out_data,       \* bytes of the file at out_file, or NoBytes
    xres,           \* outcome of extract_file: "none", "ok", or the error
    vig,            \* the cipher round trip in progress
    scan,           \* a scanner call in progress: buffer, offset, regions
    hp,             \* a _parse_header_at call: the bytes and the result
    rdr             \* _BitStreamReader calls on one stream: arguments and results

vars == << cover, emb, stego, pc, xkey, xmp3, stream, cand_offsets, cand, br, hdr,
           crc_calc, written, out_file, out_data, xres, vig, scan, hp, rdr >>

extractVars == << pc, xkey, xmp3, stream, cand_offsets, cand, br, hdr,
                  crc_calc, written, out_file, out_data, xres >>

NoEmbed ==
    [called |-> FALSE, payload |-> << >>, key |-> << >>, nlsb |-> 0,
     encrypt |-> FALSE, random_start |-> FALSE,
     status |-> "none", need |-> 0, have |-> 0, start_offset |-> NoneVal,
     mp3_out |-> NoBytes]

NoHeader == [flags |-> 0, payload_len |-> 0, crc_hdr |-> << 0, 0, 0, 0 >>]

NoVig ==
    [impl |-> "none", stage |-> "none", data |-> << >>, key |-> << >>, cur |-> << >>,
     chunk |-> 0, written |-> 0, out |-> << >>]

NoScan == [mp3 |-> << >>, start |-> 0, off |-> 0, regions |-> << >>, pc |-> "none"]

NoParse == [b |-> << >>, pc |-> "none", hdr |-> NoHdr]

NoReader == [pc |-> "none"]

ExtractIdle ==
    /\ pc = "idle"
    /\ xkey = << >>
    /\ xmp3 = NoBytes
    /\ stream = << >>
    /\ cand_offsets = << 0, 0 >>
    /\ cand = 0
    /\ br = BitStreamReader(0)
    /\ hdr = NoHeader
    /\ crc_calc = Zero32
    /\ written = 0
    /\ out_file = << >>
    /\ out_data = NoBytes
    /\ xres = "none"

Init ==
    /\ cover \in Covers
    /\ emb = NoEmbed
    /\ stego = NoBytes
    /\ ExtractIdle
    /\ vig = NoVig
    /\ scan = NoScan
    /\ hp = NoParse
    /\ rdr = NoReader

\* content of a file that is at the output path "p" before extract_file runs
PreExistingFile == << 7, 7 >>

\* as Init, with a file at the path the metadata of the messages resolve to
InitPreExisting ==
    /\ cover \in Covers
    /\ emb = NoEmbed
    /\ stego = NoBytes
    /\ pc = "idle"
    /\ xkey = << >>
    /\ xmp3 = NoBytes
    /\ stream = << >>
    /\ cand_offsets = << 0, 0 >>
    /\ cand = 0
    /\ br = BitStreamReader(0)
    /\ hdr = NoHeader
    /\ crc_calc = Zero32
    /\ written = 0
    /\ out_file = << >>
    /\ out_data = PreExistingFile
    /\ xres = "none"
    /\ vig = NoVig
    /\ scan = NoScan
    /\ hp = NoParse
    /\ rdr = NoReader

\* the cipher round trips start from a plaintext and a key; "class" is
\* ExtendedVigenereCipher, "codec" the pair used by embed_file/extract_file
InitVigenere ==
    /\ cover = << >>
    /\ emb = NoEmbed
    /\ stego = NoBytes
    /\ ExtractIdle
    /\ vig \in { [impl |-> i, stage |-> "plain", data |-> d, key |-> k, cur |-> d,
                   chunk |-> c, written |-> 0, out |-> << >>] :
                  i \in { "class", "codec" }, d \in CipherData, k \in Keys,
                  c \in ChunkSizes }
    /\ vig.impl = "class" => vig.chunk = CHUNK
    /\ scan = NoScan
    /\ hp = NoParse
    /\ rdr = NoReader

\* a scanner call starts behind the ID3v2 tag with no region   lsb.py 112-114
InitScan ==
    /\ cover = << >>
    /\ emb = NoEmbed
    /\ stego = NoBytes
    /\ ExtractIdle
    /\ vig = NoVig
    /\ scan \in { [mp3 |-> m, start |-> skip_id3v2(m), off |-> skip_id3v2(m),
                    regions |-> << >>, pc |-> "loop"] :
                   m \in ScanInputs }
    /\ hp = NoParse
    /\ rdr = NoReader

\* a _parse_header_at call at offset 0 of a short buffer       lsb.py 66-69
InitHeader ==
    /\ cover = << >>
    /\ emb = NoEmbed
    /\ stego = NoBytes
    /\ ExtractIdle
    /\ vig = NoVig
    /\ scan = NoScan
    /\ hp \in { [b |-> x, pc |-> "call", hdr |-> NoHdr] : x \in HeaderInputs }
    /\ rdr = NoReader

\* two readers on one stream: one is read twice, the other once; the empty
\* stream and streams that end inside and behind the bytes asked for, start
\* offsets inside, at the end of and behind the stream
InitReader ==
    /\ cover = << >>
    /\ emb = NoEmbed
    /\ stego = NoBytes
    /\ ExtractIdle
    /\ vig = NoVig
    /\ scan = NoScan
    /\ hp = NoParse
    /\ rdr \in { [pc |-> "new", stream |-> st, start |-> so, n |-> n, a |-> a, b |-> b,
                   br |-> BitStreamReader(so), out1 |-> << >>, out2 |-> << >>,
                   br_whole |-> BitStreamReader(so), whole |-> << >>] :
                  st \in { << >>, Fill(5, 21), Fill(20, 22), Fill(40, 23) },
                  so \in { 0, 3, 20, 45 }, n \in 1..4,
                  a \in ReaderCounts, b \in ReaderCounts }

\* ------------------------------------------------------------------------
\* embed_file                                             lsb.py 213-297
\* ------------------------------------------------------------------------
EmbedFile(payload_plain, key, nlsb, encrypt, random_start) ==
    /\ pc = "idle"
    /\ ~emb.called
    /\ LET r == embed_file(cover, PayloadPath, payload_plain, key, nlsb, encrypt, random_start)
       IN  /\ emb' = [called |-> TRUE, payload |-> payload_plain, key |-> key,
                      nlsb |-> nlsb, encrypt |-> encrypt, random_start |-> random_start,
                      status |-> r.status, need |-> r.need, have |-> r.have,
                      start_offset |-> r.start_offset, mp3_out |-> r.mp3_out]
           /\ stego' = IF r.status = "ok" THEN r.written ELSE stego
    /\ UNCHANGED << cover, vig, scan, hp, rdr >>
    /\ UNCHANGED extractVars

\* ------------------------------------------------------------------------
\* extract_file                                           lsb.py 299-392
\* ------------------------------------------------------------------------
cand_nlsb(c) == ((c - 1) \div 2) + 1

\* variant: the seeded offset is tried before offset 0
cand_off_seeded_first(offsets, c) == offsets[2 - ((c - 1) % 2)]

cand_off(offsets, c) == offsets[((c - 1) % 2) + 1]

\* variant: a rejection ends the two loops
next_candidate_none(c) == 9

\* `continue`: the next (n, off) pair of the two nested loops
next_candidate(c) == c + 1

\* The files extract_file is run on: the stego file once embed_file was
\* called (if it wrote one), before that the cover itself or a prepared file.
ExtractInputs ==
    IF emb.called
    THEN (IF stego # NoBytes THEN { stego } ELSE { })
    ELSE { cover } \cup PreparedFiles

\* variant: the seeded offset is left out
extract_cand_offsets_zero(key, total_bytes) == << 0, 0 >>

\* cand_offsets of line 317
extract_cand_offsets(key, total_bytes) == << 0, seeded_offset(key, total_bytes) >>

\* lines 306-317: read the file, scan, build the stream and the offsets
ExtractStart(key, file) ==
    /\ pc = "idle"
    /\ file \in ExtractInputs
    /\ xmp3' = file
    /\ LET regs == collect_frames_and_regions(file)
           st == usable_stream(file, regs)
       IN  IF no_regions(regs)
           THEN /\ pc' = "done"
                /\ xres' = "NoFrames"
                /\ UNCHANGED << stream, cand_offsets, cand >>
           ELSE IF Len(st) = 0
           THEN /\ pc' = "done"
                /\ xres' = "StreamEmpty"
                /\ stream' = st
                /\ UNCHANGED << cand_offsets, cand >>
           ELSE /\ pc' = "cand"
                /\ xres' = xres
                /\ stream' = st
                /\ cand_offsets' = extract_cand_offsets(key, Len(st))
                /\ cand' = 1
    /\ xkey' = key
    /\ UNCHANGED << cover, emb, stego, br, hdr, crc_calc, written, out_file, out_data, vig, scan, hp, rdr >>

\* variant: the nlsb byte of the header is not compared
header_rejected_any_nlsb(fixed, n) ==
    \/ Len(fixed) # HEADER_LEN_FIXED
    \/ Slice(fixed, 0, 6) # MAGIC

\* the test of lines 323-327
header_rejected(fixed, n) ==
    \/ Len(fixed) # HEADER_LEN_FIXED
    \/ Slice(fixed, 0, 6) # MAGIC
    \/ fixed[8] # n

\* lines 321-343: header and metadata of one candidate
ExtractCandidate ==
    /\ pc = "cand"
    /\ cand <= 8
    /\ LET n == cand_nlsb(cand)
           off == cand_off(cand_offsets, cand)
           r1 == BitStreamReader_read(stream, n, BitStreamReader(off), HEADER_LEN_FIXED)
           fixed == r1.out
           meta_len == from_bytes_big(Slice(fixed, 16, 20))
           r2 == BitStreamReader_read(stream, n, r1.br, meta_len)
           meta == json_loads(r2.out)
       IN  IF header_rejected(fixed, n)
           THEN /\ cand' = next_candidate(cand)
                /\ UNCHANGED << pc, br, hdr, crc_calc, written, out_file, out_data >>
           ELSE IF Len(r2.out) # meta_len
           THEN /\ cand' = next_candidate(cand)
                /\ UNCHANGED << pc, br, hdr, crc_calc, written, out_file, out_data >>
           ELSE IF ~meta.ok
           THEN /\ cand' = next_candidate(cand)
                /\ UNCHANGED << pc, br, hdr, crc_calc, written, out_file, out_data >>
           ELSE /\ pc' = "write"
                /\ cand' = cand
                /\ br' = r2.br
                /\ hdr' = [flags |-> fixed[7],
                           payload_len |-> from_bytes_big(Slice(fixed, 8, 12)),
                           crc_hdr |-> Slice(fixed, 12, 16)]
                /\ crc_calc' = Zero32
                /\ written' = 0
                /\ out_file' = resolve_output_path(<< >>, meta)
                /\ out_data' = << >>
    /\ UNCHANGED << cover, emb, stego, xkey, xmp3, stream, cand_offsets, xres, vig, scan, hp, rdr >>

\* kb of line 342: the key bytes when the encrypted flag is set
extract_kb(flags, key) == IF (flags % 2) = 1 THEN key ELSE << >>

\* variant: the rejected output file is left in place
os_remove_keeps_file(data) == data

\* os.remove(out_file) of lines 367 and 374: the file exists no more
os_remove(data) == NoBytes

\* variant: the running checksum takes the decrypted bytes
extract_crc_update_decrypted(raw, dec, crc) == crc32(dec, crc)

\* line 355: the running checksum takes the chunk as read from the stream;
\* dec, the chunk as written to the file, is not used
extract_crc_update(raw, dec, crc) == crc32(raw, crc)

\* lines 350-370: one chunk of the payload
ExtractWrite ==
    /\ pc = "write"
    /\ written < hdr.payload_len
    /\ LET need == Min(CHUNK, hdr.payload_len - written)
           r == BitStreamReader_read(stream, cand_nlsb(cand), br, need)
           raw == r.out
           dec == chunk_decrypt(raw, extract_kb(hdr.flags, xkey), written)
       IN  IF Len(raw) # need
           THEN /\ out_data' = os_remove(out_data)
                /\ cand' = next_candidate(cand)
                /\ pc' = "cand"
                /\ br' = r.br
                /\ UNCHANGED << crc_calc, written >>
           ELSE /\ crc_calc' = extract_crc_update(raw, dec, crc_calc)
                /\ out_data' = out_data \o dec
                /\ written' = written + need
                /\ br' = r.br
                /\ UNCHANGED << cand, pc >>
    /\ UNCHANGED << cover, emb, stego, xkey, xmp3, stream, cand_offsets, hdr, out_file, xres, vig, scan, hp, rdr >>

\* lines 372-388: the checksum comparison after the last chunk
ExtractVerify ==
    /\ pc = "write"
    /\ ~(written < hdr.payload_len)
    /\ IF BitsToBytes4(crc_calc) # hdr.crc_hdr
       THEN /\ out_data' = os_remove(out_data)
            /\ cand' = next_candidate(cand)
            /\ pc' = "cand"
            /\ xres' = xres
       ELSE /\ pc' = "done"
            /\ xres' = "ok"
            /\ UNCHANGED << out_data, cand >>
    /\ UNCHANGED << cover, emb, stego, xkey, xmp3, stream, cand_offsets, br, hdr,
                    crc_calc, written, out_file, vig, scan, hp, rdr >>

\* lines 390-392: every candidate was rejected
ExtractFail ==
    /\ pc = "cand"
    /\ cand > 8
    /\ pc' = "done"
    /\ xres' = "NotFound"
    /\ UNCHANGED << cover, emb, stego, xkey, xmp3, stream, cand_offsets, cand, br, hdr,
                    crc_calc, written, out_file, out_data, vig, scan, hp, rdr >>

\* ------------------------------------------------------------------------
\* The cipher operations
\* ------------------------------------------------------------------------
VigStep(impl, from, result, to) ==
    /\ vig.impl = impl
    /\ vig.stage = from
    /\ vig' = [vig EXCEPT !.cur = result,
                          !.stage = IF result = ValueError THEN "error" ELSE to]
    /\ UNCHANGED << cover, emb, stego, scan, hp, rdr >>
    /\ UNCHANGED extractVars

\* ExtendedVigenereCipher.encrypt                        vigenere.py 16-41
CipherEncrypt == VigStep("class", "plain", ExtendedVigenereCipher_encrypt(vig.cur, vig.key), "enc")

\* ExtendedVigenereCipher.decrypt                        vigenere.py 43-68
CipherDecrypt == VigStep("class", "enc", ExtendedVigenereCipher_decrypt(vig.cur, vig.key), "dec")

\* ExtendedVigenereCipher.decrypt called on the data as they are
CipherDecryptDirect ==
    VigStep("class", "plain", ExtendedVigenereCipher_decrypt(vig.cur, vig.key), "decDirect")

\* _vigenere256_encrypt as embed_file calls it                lsb.py 236
CodecEncrypt == VigStep("codec", "plain", vigenere256_encrypt(vig.cur, vig.key), "enc")

\* the extractor's write loop over the stored payload vig.cur, one turn per
\* step: the next chunk of at most vig.chunk bytes is decrypted and appended
\* to the output; when nothing is left the output is complete
\*                                                        lsb.py 342-363
CodecDecrypt ==
    /\ vig.impl = "codec"
    /\ vig.stage = "enc"
    /\ IF vig.written < Len(vig.cur)
       THEN LET need == Min(vig.chunk, Len(vig.cur) - vig.written)
                raw == Slice(vig.cur, vig.written, vig.written + need)
                dec == chunk_decrypt(raw, extract_kb(FLAG_ENCRYPTED, vig.key), vig.written)
            IN  vig' = [vig EXCEPT !.out = vig.out \o dec,
                                   !.written = vig.written + need]
       ELSE vig' = [vig EXCEPT !.stage = "dec", !.cur = vig.out]
    /\ UNCHANGED << cover, emb, stego, scan, hp, rdr >>
    /\ UNCHANGED extractVars

\* ------------------------------------------------------------------------
\* _collect_frames_and_regions, one turn of its while loop per step
\*                                                        lsb.py 115-128
\* ------------------------------------------------------------------------
\* variant: a failed parse ends the scan
ScanStep_stop_on_failure ==
    /\ scan.pc = "loop"
    /\ LET header == parse_header_at(scan.mp3, scan.off)
           fsize == header.frame_len
       IN  IF ~(scan.off + 4 <= Len(scan.mp3)) THEN scan' = [scan EXCEPT !.pc = "done"]
           ELSE IF header = NoHdr THEN scan' = [scan EXCEPT !.pc = "done"]
           ELSE IF frame_cut_off(scan.off, fsize, Len(scan.mp3))
           THEN scan' = [scan EXCEPT !.pc = "done"]
           ELSE scan' = [scan EXCEPT
                            !.off = scan.off + fsize,
                            !.regions = scan.regions
                                            \o frame_region(scan.off, fsize, header.side_len)]
    /\ UNCHANGED << cover, emb, stego, vig, hp, rdr >>
    /\ UNCHANGED extractVars

ScanStep ==
    /\ scan.pc = "loop"
    /\ LET header == parse_header_at(scan.mp3, scan.off)
           fsize == header.frame_len
       IN  IF ~(scan.off + 4 <= Len(scan.mp3)) THEN scan' = [scan EXCEPT !.pc = "done"]
           ELSE IF header = NoHdr THEN scan' = [scan EXCEPT !.off = resync_offset(scan.off)]
           ELSE IF frame_cut_off(scan.off, fsize, Len(scan.mp3))
           THEN scan' = [scan EXCEPT !.pc = "done"]
           ELSE scan' = [scan EXCEPT
                            !.off = scan.off + fsize,
                            !.regions = scan.regions
                                            \o frame_region(scan.off, fsize, header.side_len)]
    /\ UNCHANGED << cover, emb, stego, vig, hp, rdr >>
    /\ UNCHANGED extractVars

NextScan == ScanStep

\* ------------------------------------------------------------------------
\* _parse_header_at called at offset 0                      lsb.py 66-108
\* ------------------------------------------------------------------------
ParseHeader ==
    /\ hp.pc = "call"
    /\ hp' = [hp EXCEPT !.pc = "returned", !.hdr = parse_header_at(hp.b, 0)]
    /\ UNCHANGED << cover, emb, stego, vig, scan, rdr >>
    /\ UNCHANGED extractVars

\* read(a) on the first reader
ReadFirst ==
    /\ rdr.pc = "new"
    /\ LET r == BitStreamReader_read(rdr.stream, rdr.n, rdr.br, rdr.a)
       IN  rdr' = [rdr EXCEPT !.pc = "first", !.out1 = r.out, !.br = r.br]
    /\ UNCHANGED << cover, emb, stego, vig, scan, hp >>
    /\ UNCHANGED extractVars

\* read(b) on the first reader
ReadSecond ==
    /\ rdr.pc = "first"
    /\ LET r == BitStreamReader_read(rdr.stream, rdr.n, rdr.br, rdr.b)
       IN  rdr' = [rdr EXCEPT !.pc = "second", !.out2 = r.out, !.br = r.br]
    /\ UNCHANGED << cover, emb, stego, vig, scan, hp >>
    /\ UNCHANGED extractVars

\* read(a + b) on the second reader
ReadWhole ==
    /\ rdr.pc = "second"
    /\ LET r == BitStreamReader_read(rdr.stream, rdr.n, rdr.br_whole, rdr.a + rdr.b)
       IN  rdr' = [rdr EXCEPT !.pc = "done", !.whole = r.out, !.br_whole = r.br]
    /\ UNCHANGED << cover, emb, stego, vig, scan, hp >>
    /\ UNCHANGED extractVars

NextReader ==
    \/ ReadFirst
    \/ ReadSecond
    \/ ReadWhole

SpecReader == InitReader /\ [][NextReader]_vars

NextHeader == ParseHeader

SpecHeader == InitHeader /\ [][NextHeader]_vars

SpecScan == InitScan /\ [][NextScan]_vars

\* the loop is sequential code that runs on: a turn that can be taken is taken
SpecScanFair == SpecScan /\ WF_vars(ScanStep)

NextVigenere ==
    \/ CipherEncrypt
    \/ CipherDecrypt
    \/ CipherDecryptDirect
    \/ CodecEncrypt
    \/ CodecDecrypt

SpecVigenere == InitVigenere /\ [][NextVigenere]_vars

Next ==
    \/ \E p \in Payloads, k \in Keys, n \in NlsbInputs, e \in BOOLEAN, rs \in BOOLEAN :
           EmbedFile(p, k, n, e, rs)
    \/ \E k \in Keys, f \in ExtractInputs : ExtractStart(k, f)
    \/ ExtractCandidate
    \/ ExtractWrite
    \/ ExtractVerify
    \/ ExtractFail

Spec == Init /\ [][Next]_vars

\* the same calls with a file already at the output path
SpecPreExisting == InitPreExisting /\ [][Next]_vars

\* ------------------------------------------------------------------------
\* Quantities of the embed_file call recorded in emb, computed from the
\* cover and the arguments
\* ------------------------------------------------------------------------
EmbRegs == collect_frames_and_regions(cover)

EmbTotal == total_usable_bytes(EmbRegs)

EmbMessage ==
    embed_message(PayloadPath, emb.payload, emb.key, emb.nlsb, emb.encrypt, emb.random_start)

EmbMsgBits == 8 * Len(EmbMessage)

EmbStart == IF emb.random_start THEN seeded_offset(emb.key, EmbTotal) ELSE 0

EmbCap == (EmbTotal - EmbStart) * emb.nlsb

EmbChecked == emb.called /\ emb.nlsb >= 1 /\ emb.nlsb <= 4 /\ Len(EmbRegs) > 0

InRegion(regs, pos) == \E r \in 1..Len(regs) : regs[r].s <= pos /\ pos < regs[r].e

AbsDiff(a, b) == IF a < b THEN b - a ELSE a - b

\* ------------------------------------------------------------------------
\* C1  Round trip: after a successful embed_file, extract_file with the same
\* key ends successfully and the file it wrote holds exactly the payload.
\* The code violates it (see C2).
\* ------------------------------------------------------------------------
C1_RoundTrip ==
    (pc = "done" /\ emb.status = "ok" /\ xkey = emb.key)
        => (xres = "ok" /\ out_data = emb.payload)

\* ------------------------------------------------------------------------
\* C2  Short last group: with nlsb = 3 and a message whose bit length is not
\* a multiple of 3, a bit reader with the same nlsb and start offset reads
\* every message byte back from the stego stream, the last one included.
\* The code violates it: the short group is written right-aligned in the
\* low bits, the reader takes it left-aligned.
\* ------------------------------------------------------------------------
C2_ShortLastGroup ==
    (emb.status = "ok" /\ emb.nlsb = 3 /\ EmbMsgBits % 3 # 0)
        => BitStreamReader_read(usable_stream(stego, EmbRegs), 3,
                                BitStreamReader(EmbStart), Len(EmbMessage)).out
           = EmbMessage

\* ------------------------------------------------------------------------
\* C3  Wrong-key rejection as claimed: after a successful embed with key K,
\* extract_file with any other key ends with extraction-not-found, whatever
\* encrypt and random_start were.
\* ------------------------------------------------------------------------
C3_WrongKeyAlwaysRejected ==
    (pc = "done" /\ emb.status = "ok" /\ xkey # emb.key) => xres = "NotFound"

\* C3 as amended: a wrong key is rejected when the message was embedded with
\* random_start on at a start offset that is neither 0 nor the seeded offset
\* of the wrong key.
C3_WrongKeyRejectedByOffset ==
    (/\ pc = "done"
     /\ emb.status = "ok"
     /\ xkey # emb.key
     /\ emb.random_start
     /\ EmbStart # 0
     /\ EmbStart # seeded_offset(xkey, EmbTotal))
        => xres = "NotFound"

C3_Witness ==
    /\ pc = "done"
    /\ emb.status = "ok"
    /\ xkey # emb.key
    /\ emb.random_start
    /\ emb.nlsb = 2
    /\ EmbStart # 0
    /\ EmbStart # seeded_offset(xkey, EmbTotal)
    /\ xres = "NotFound"

\* ------------------------------------------------------------------------
\* C4  Region isolation: after a successful embed the stego buffer has the
\* length of the cover and equals it at every position outside all regions.
\* ------------------------------------------------------------------------
C4_RegionIsolation ==
    emb.status = "ok"
        => LET regs == EmbRegs
           IN  /\ Len(stego) = Len(cover)
               /\ emb.mp3_out = stego
               /\ \A pos \in 0..(Len(cover) - 1) :
                      ~InRegion(regs, pos) => stego[pos + 1] = cover[pos + 1]

C4_Witness ==
    /\ emb.status = "ok"
    /\ cover = CoverA
    /\ \E pos \in 0..(Len(cover) - 1) : stego[pos + 1] # cover[pos + 1]

\* ------------------------------------------------------------------------
\* C5  Only the low nlsb bits change: after a successful embed every stego
\* byte has the upper 8 - nlsb bits of the cover byte and differs from it by
\* at most 2^nlsb - 1.
\* ------------------------------------------------------------------------
C5_LowBitsOnly ==
    emb.status = "ok"
        => \A i \in 1..Len(cover) :
               /\ stego[i] \div Pow2(emb.nlsb) = cover[i] \div Pow2(emb.nlsb)
               /\ AbsDiff(stego[i], cover[i]) <= Pow2(emb.nlsb) - 1

C5_Witness ==
    /\ emb.status = "ok"
    /\ emb.nlsb = 3
    /\ \E i \in 1..Len(cover) : AbsDiff(stego[i], cover[i]) = 7

\* ------------------------------------------------------------------------
\* C6  Capacity error: when (total_usable_bytes - start_offset) * nlsb is
\* less than the message bit length, embed_file ends with the capacity error
\* carrying both bit counts, the working buffer was never created and no
\* output file was written.
\* ------------------------------------------------------------------------
C6_CapacityError ==
    (EmbChecked /\ EmbCap < EmbMsgBits)
        => /\ emb.status = "Capacity"
           /\ emb.need = EmbMsgBits
           /\ emb.have = EmbCap
           /\ emb.mp3_out = NoBytes
           /\ stego = NoBytes

C6_Witness ==
    /\ emb.status = "Capacity"
    /\ emb.random_start
    /\ EmbTotal * emb.nlsb >= EmbMsgBits
    /\ emb.have < emb.need
    /\ stego = NoBytes

\* ------------------------------------------------------------------------
\* C7  Capacity boundary: embed_file succeeds exactly when the capacity is at
\* least the message bit length; it never ends with the "capacity ran out
\* after pre-check" error, and on success every bit group of the message is
\* in the low bits of its usable byte.
\* ------------------------------------------------------------------------
AllGroupsWritten ==
    LET st == usable_stream(stego, EmbRegs)
        bits == bytes_to_bits(EmbMessage)
        n == emb.nlsb
    IN  \A g \in 0..(((Len(bits) + n - 1) \div n) - 1) :
            st[EmbStart + g + 1] % Pow2(n)
                = GroupValue(bits, g * n + 1, Min(g * n + n, Len(bits)), 0)

C7_CapacityBoundary ==
    EmbChecked
        => /\ emb.status \in { "ok", "Capacity" }
           /\ (emb.status = "ok") <=> (EmbCap >= EmbMsgBits)
           /\ emb.status = "ok" => AllGroupsWritten

C7_Witness ==
    /\ emb.status = "ok"
    /\ EmbCap = EmbMsgBits
    /\ AllGroupsWritten

\* ------------------------------------------------------------------------
\* C8  Cipher involution: for a non-empty key, the encrypted bytes are the
\* data plus the key byte at index i mod key length (mod 256), and decrypting
\* them gives the data back, for ExtendedVigenereCipher and for the codec.
\* ------------------------------------------------------------------------
C8_CipherInvolution ==
    Len(vig.key) > 0
        => /\ vig.stage = "enc"
                => /\ Len(vig.cur) = Len(vig.data)
                   /\ \A i \in 1..Len(vig.data) :
                          vig.cur[i]
                              = (vig.data[i] + vig.key[((i - 1) % Len(vig.key)) + 1]) % 256
           /\ vig.stage = "dec" => vig.cur = vig.data
           /\ vig.stage # "error"

C8_Witness ==
    /\ vig.stage = "dec"
    /\ vig.impl = "class"
    /\ Len(vig.key) = 2
    /\ Len(vig.data) = 3
    /\ vig.data[1] = 255
    /\ vig.cur = vig.data

\* ------------------------------------------------------------------------
\* C9  Empty key in the codec: a message embedded with encrypt on and the
\* empty key and extracted with the empty key is recovered exactly.  The
\* code violates it for nlsb = 3 (see C2).
\* ------------------------------------------------------------------------
C9_EmptyKeyRecovered ==
    (/\ pc = "done"
     /\ emb.status = "ok"
     /\ emb.encrypt
     /\ emb.key = KeyEmpty
     /\ xkey = KeyEmpty)
        => (xres = "ok" /\ out_data = emb.payload)

\* ------------------------------------------------------------------------
\* C10  Empty payload: embed_file with a zero-length payload ends with a
\* validation error, without a working buffer and without an output file.
\* The code has no such check.
\* ------------------------------------------------------------------------
C10_EmptyPayloadRejected ==
    (emb.called /\ Len(emb.payload) = 0)
        => (emb.status = "ValueError" /\ emb.mp3_out = NoBytes /\ stego = NoBytes)

\* ------------------------------------------------------------------------
\* C11  nlsb validation comes first: an embed_file call with nlsb outside
\* {1, 2, 3, 4} ends with ValueError whatever the cover holds (a cover
\* without frames included), with no working buffer and no output file; and
\* the header that a successful call wrote into the stego stream stores the
\* call's nlsb, a value in 1..4, at header byte 7.
\* ------------------------------------------------------------------------
C11_InvalidNlsbFirst ==
    /\ (emb.called /\ ~(emb.nlsb \in 1..4))
           => (emb.status = "ValueError" /\ emb.mp3_out = NoBytes /\ stego = NoBytes)
    /\ emb.status = "ok"
           => LET fixed == BitStreamReader_read(usable_stream(stego, EmbRegs), emb.nlsb,
                                                BitStreamReader(EmbStart), 8).out
              IN  Len(fixed) = 8 /\ fixed[8] = emb.nlsb /\ fixed[8] \in 1..4

\* an invalid nlsb on the cover without frames: ValueError, not "no frames"
C11_Witness ==
    /\ emb.status = "ValueError"
    /\ emb.nlsb = 5
    /\ cover = CoverD
    /\ stego = NoBytes

\* ------------------------------------------------------------------------
\* C12  No regions is fatal: an embed_file call with a valid nlsb on a file
\* where the scanner finds no region ends with the "no frames" error, with
\* no working buffer and no output file; extract_file on such a file ends
\* with its "no frames" error at once: no candidate was tried and no output
\* file was named or created.
\* ------------------------------------------------------------------------
C12_NoRegionsFatal ==
    /\ (emb.called /\ emb.nlsb \in 1..4 /\ Len(EmbRegs) = 0)
           => (emb.status = "NoFrames" /\ emb.mp3_out = NoBytes /\ stego = NoBytes)
    /\ (pc # "idle" /\ Len(collect_frames_and_regions(xmp3)) = 0)
           => /\ pc = "done"
              /\ xres = "NoFrames"
              /\ cand = 0
              /\ br = BitStreamReader(0)
              /\ out_file = << >>
              /\ out_data = NoBytes

\* extract_file was run on the file without frames
C12_Witness ==
    /\ xmp3 = CoverD
    /\ pc = "done"
    /\ xres = "NoFrames"

CandidatePasses(st, offsets, c) ==
    LET n == cand_nlsb(c)
        r1 == BitStreamReader_read(st, n, BitStreamReader(cand_off(offsets, c)), HEADER_LEN_FIXED)
        fixed == r1.out
        meta_len == from_bytes_big(Slice(fixed, 16, 20))
        payload_len == from_bytes_big(Slice(fixed, 8, 12))
        r2 == BitStreamReader_read(st, n, r1.br, meta_len)
        r3 == BitStreamReader_read(st, n, r2.br, payload_len)
    IN  /\ Len(fixed) = HEADER_LEN_FIXED
        /\ Slice(fixed, 0, 6) = MAGIC
        /\ fixed[8] = n
        /\ Len(r2.out) = meta_len
        /\ json_loads(r2.out).ok
        /\ Len(r3.out) = payload_len
        /\ BitsToBytes4(crc32(r3.out, Zero32)) = Slice(fixed, 12, 16)

\* ------------------------------------------------------------------------
\* C14  A rejected candidate is never final by itself: a rejection always
\* leads to the next of the 8 candidates (nlsb 1..4, each with offset 0 and
\* the seeded offset); the candidates already left behind all fail the
\* test; extraction-not-found is raised only after all 8 were tried and
\* failed; and once the call has entered the loop it ends in success exactly
\* when one of the 8 candidates passes.
\* ------------------------------------------------------------------------
C14_AllCandidatesTried ==
    /\ [][(pc \in { "cand", "write" } /\ cand' # cand)
              => (cand' = cand + 1 /\ pc' = "cand" /\ xres' = "none")]_vars
    /\ [](pc \in { "cand", "write" }
              => \A c \in 1..(cand - 1) : ~CandidatePasses(stream, cand_offsets, c))
    /\ [](xres = "NotFound"
              => (cand = 9 /\ \A c \in 1..8 : ~CandidatePasses(stream, cand_offsets, c)))
    /\ []((pc = "done" /\ xres \in { "ok", "NotFound" })
              => (xres = "ok" <=> \E c \in 1..8 : CandidatePasses(stream, cand_offsets, c)))

\* the candidate (4, 0) created the file and failed the checksum, the next
\* candidate (4, seeded) passed: the call returned the payload
C14_Witness ==
    /\ xmp3 = FileBadThenGood
    /\ xkey = KeyEmpty
    /\ pc = "done"
    /\ xres = "ok"
    /\ cand = 8
    /\ out_data = << 65, 66 >>
    /\ ~CandidatePasses(stream, cand_offsets, 7)

\* ------------------------------------------------------------------------
\* Bit i (from 0) of a message, most significant bit of every byte first,
\* and the value of the g bits from bit lo on, first bit most significant
\* ------------------------------------------------------------------------
MessageBit(message, i) == (message[(i \div 8) + 1] \div Pow2(7 - (i % 8))) % 2

RECURSIVE BitsValue(_, _, _)
BitsValue(message, lo, g) ==
    IF g = 0 THEN 0
    ELSE 2 * BitsValue(message, lo, g - 1) + MessageBit(message, lo + g - 1)

\* ------------------------------------------------------------------------
\* C15  Embedding layout: a successful embed_file leaves the first
\* start_offset usable bytes as they were, puts the message, most
\* significant bit first and nlsb bits per byte, into the low bits of exactly
\* the next ceil(message_bits / nlsb) usable bytes (upper bits kept, the
\* last group holding the bits that remain), and leaves every later usable
\* byte as it was.
\* ------------------------------------------------------------------------
C15_EmbedLayout ==
    emb.status = "ok"
        => LET regs == EmbRegs
               before == usable_stream(cover, regs)
               after == usable_stream(stego, regs)
               message == EmbMessage
               message_bits == 8 * Len(message)
               start_offset == EmbStart
               n == emb.nlsb
               groups == (message_bits + n - 1) \div n
           IN  /\ Len(after) = Len(before)
               /\ start_offset + groups <= Len(before)
               /\ \A j \in 0..(Len(before) - 1) :
                      IF j < start_offset \/ j >= start_offset + groups
                      THEN after[j + 1] = before[j + 1]
                      ELSE /\ after[j + 1] \div Pow2(n) = before[j + 1] \div Pow2(n)
                           /\ after[j + 1] % Pow2(n)
                                  = BitsValue(message, (j - start_offset) * n,
                                              Min(n, message_bits - (j - start_offset) * n))

\* a seeded start offset, nlsb 3 with a short last group, usable bytes left
\* over behind the message, and a stego stream that differs from the cover's
C15_Witness ==
    /\ emb.status = "ok"
    /\ emb.nlsb = 3
    /\ EmbMsgBits % 3 # 0
    /\ EmbStart > 0
    /\ EmbStart + ((EmbMsgBits + 2) \div 3) < EmbTotal
    /\ usable_stream(stego, EmbRegs) # usable_stream(cover, EmbRegs)

\* ------------------------------------------------------------------------
\* C16  Chunked decryption: with a non-empty key, after every turn of the
\* write loop, whatever the chunk size, the bytes written so far are
\* (c[j] - key_bytes[j mod key_length]) mod 256 for their absolute payload
\* index j, c being the stored payload; after the last turn they are all of
\* the whole-buffer decryption.
\* ------------------------------------------------------------------------
C16_ChunkedDecrypt ==
    (vig.impl = "codec" /\ vig.stage = "enc" /\ Len(vig.key) > 0)
        => /\ Len(vig.out) = vig.written
           /\ vig.written <= Len(vig.cur)
           /\ \A j \in 0..(vig.written - 1) :
                  vig.out[j + 1] = (vig.cur[j + 1] - vig.key[(j % Len(vig.key)) + 1]) % 256
           /\ vig.written = Len(vig.cur)
                  => vig.out = ExtendedVigenereCipher_decrypt(vig.cur, vig.key)

\* three one-byte chunks under a two-byte key, all written
C16_Witness ==
    /\ vig.impl = "codec"
    /\ vig.stage = "enc"
    /\ vig.chunk = 1
    /\ vig.key = KeyS3
    /\ Len(vig.cur) = 3
    /\ vig.written = 3
    /\ vig.out = vig.data

\* ------------------------------------------------------------------------
\* The payload bytes as stored: what embed_file put behind the metadata, and
\* the first k bytes behind the metadata of candidate c in the stream
\* ------------------------------------------------------------------------
StoredByEmbed ==
    IF emb.encrypt /\ Len(emb.key) > 0
    THEN [i \in 1..Len(emb.payload) |->
             (emb.payload[i] + emb.key[((i - 1) % Len(emb.key)) + 1]) % 256]
    ELSE emb.payload

StoredInStream(st, offsets, c, k) ==
    LET n == cand_nlsb(c)
        r1 == BitStreamReader_read(st, n, BitStreamReader(cand_off(offsets, c)), HEADER_LEN_FIXED)
        r2 == BitStreamReader_read(st, n, r1.br, from_bytes_big(Slice(r1.out, 16, 20)))
    IN  BitStreamReader_read(st, n, r2.br, k).out

\* ------------------------------------------------------------------------
\* C17  Checksum over the stored payload only: the checksum field of the
\* header a successful embed wrote is the CRC-32 of the payload bytes as
\* stored (after encryption), whatever the flags, nlsb and metadata are; the
\* extractor's running checksum is the CRC-32 of the stored bytes read so
\* far, whatever the key and whatever was written to the output file; and a
\* call that returned success found the stored checksum equal to the CRC-32
\* of the stored bytes.
\* ------------------------------------------------------------------------
C17_ChecksumOverStored ==
    /\ emb.status = "ok"
           => BitStreamReader_read(usable_stream(stego, EmbRegs), emb.nlsb,
                                   BitStreamReader(EmbStart), 16).out
              = MAGIC \o << embed_flags(emb.encrypt, emb.random_start), emb.nlsb >>
                \o to_bytes4(Len(emb.payload))
                \o BitsToBytes4(crc32(StoredByEmbed, Zero32))
    /\ pc = "write"
           => crc_calc = crc32(StoredInStream(stream, cand_offsets, cand, written), Zero32)
    /\ (pc = "done" /\ xres = "ok")
           => /\ written = hdr.payload_len
              /\ hdr.crc_hdr
                     = BitsToBytes4(crc32(StoredInStream(stream, cand_offsets, cand, written),
                                          Zero32))

\* extraction with a key other than the embedder's succeeded on an encrypted
\* payload: the checksum matched although the file written is not the payload
C17_Witness ==
    /\ pc = "done"
    /\ xres = "ok"
    /\ emb.status = "ok"
    /\ emb.encrypt
    /\ Len(emb.payload) = 2
    /\ emb.key = KeyX
    /\ xkey = KeyS3
    /\ out_data # emb.payload
    /\ out_data # StoredByEmbed

\* ------------------------------------------------------------------------
\* The 22 bytes a reader with the candidate's nlsb and offset takes from the
\* stream, and the three conditions on them
\* ------------------------------------------------------------------------
FixedAt(st, offsets, c) ==
    BitStreamReader_read(st, cand_nlsb(c), BitStreamReader(cand_off(offsets, c)), 22).out

HeaderComplete(fixed) == Len(fixed) = 22

HeaderHasMagic(fixed) ==
    /\ Len(fixed) >= 6
    /\ << fixed[1], fixed[2], fixed[3], fixed[4], fixed[5], fixed[6] >>
           = << 77, 76, 83, 66, 118, 51 >>

HeaderHasNlsb(fixed, c) == Len(fixed) >= 8 /\ fixed[8] = cand_nlsb(c)

\* ------------------------------------------------------------------------
\* C18  Header acceptance: a candidate goes on to metadata and payload
\* reading only if its 22 header bytes are complete, begin with the magic
\* "MLSBv3" and hold the candidate's nlsb at byte 7; a candidate that fails
\* one of the three is skipped for the next one and no output file is named
\* or created.
\* ------------------------------------------------------------------------
C18_HeaderAcceptance ==
    /\ [](pc = "write"
              => LET fixed == FixedAt(stream, cand_offsets, cand)
                 IN  /\ HeaderComplete(fixed)
                     /\ HeaderHasMagic(fixed)
                     /\ HeaderHasNlsb(fixed, cand))
    /\ [][(pc = "cand" /\ cand <= 8)
              => LET fixed == FixedAt(stream, cand_offsets, cand)
                 IN  IF HeaderComplete(fixed) /\ HeaderHasMagic(fixed) /\ HeaderHasNlsb(fixed, cand)
                     THEN TRUE
                     ELSE /\ pc' = "cand"
                          /\ cand' = cand + 1
                          /\ out_data' = NoBytes
                          /\ UNCHANGED << out_file, br, hdr, written, crc_calc, xres >>]_vars

\* the candidate (4, 0) read the magic but a header byte 7 of 2: it was
\* skipped and no file was named or created
C18_Witness ==
    /\ xmp3 = FileWrongNlsb
    /\ pc = "cand"
    /\ cand = 8
    /\ HeaderHasMagic(FixedAt(stream, cand_offsets, 7))
    /\ FixedAt(stream, cand_offsets, 7)[8] = 2
    /\ out_file = << >>
    /\ out_data = NoBytes

\* ------------------------------------------------------------------------
\* C19  Start offsets: the start offset of an embed_file call that reached
\* the capacity test is 0 without random_start and otherwise the seeded
\* value of its key and usable-byte total, a value in [0, total), whatever
\* payload, nlsb and encrypt are, and the message of a successful call
\* begins at that usable byte; the extractor's candidate offsets are 0 and
\* the seeded value of its key and stream length; with the embedder's key
\* on the stego file they include the embedder's start offset.
\* ------------------------------------------------------------------------
C19_StartOffsets ==
    /\ emb.status \in { "ok", "Capacity" }
           => /\ emb.start_offset
                     = (IF emb.random_start THEN seeded_offset(emb.key, EmbTotal) ELSE 0)
              /\ emb.start_offset >= 0
              /\ emb.start_offset < EmbTotal
    /\ emb.status = "ok"
           => BitStreamReader_read(usable_stream(stego, EmbRegs), emb.nlsb,
                                   BitStreamReader(emb.start_offset), 6).out = MAGIC
    /\ pc \in { "cand", "write" } \/ xres \in { "ok", "NotFound" }
           => /\ cand_offsets = << 0, seeded_offset(xkey, Len(stream)) >>
              /\ cand_offsets[2] >= 0
              /\ cand_offsets[2] < Len(stream)
    /\ (pc # "idle" /\ emb.status = "ok" /\ xkey = emb.key)
           => /\ Len(stream) = EmbTotal
              /\ emb.start_offset \in { cand_offsets[1], cand_offsets[2] }

\* embedder and extractor use the key "x" with random_start on: the second
\* candidate offset is the embedder's start offset, not 0
C19_Witness ==
    /\ emb.status = "ok"
    /\ emb.random_start
    /\ emb.key = KeyX
    /\ xkey = KeyX
    /\ pc = "cand"
    /\ emb.start_offset > 0
    /\ cand_offsets = << 0, emb.start_offset >>

\* ------------------------------------------------------------------------
\* The turn of the scanner's loop at the current offset: the header parsed
\* there (or NoHdr), whether its frame lies within the buffer, its region
\* ------------------------------------------------------------------------
ScanHdr == parse_header_at(scan.mp3, scan.off)

ScanInLoop == scan.pc = "loop" /\ scan.off + 4 <= Len(scan.mp3)

ScanFrameFits == scan.off + ScanHdr.frame_len <= Len(scan.mp3)

ScanRegion ==
    LET s == scan.off + 4 + ScanHdr.side_len
        e == Min(scan.off + ScanHdr.frame_len, s + 512)
    IN  IF s < e THEN << [s |-> s, e |-> e] >> ELSE << >>

\* ------------------------------------------------------------------------
\* C20  Scanner advance as claimed: while at least 4 bytes remain, a turn at
\* a parsed header advances by frame_len and a turn at a failed parse by
\* one byte, and the scan goes on; the scan ends only when fewer than 4
\* bytes remain, so a parsed header never ends it.
\* ------------------------------------------------------------------------
C20_ParsedHeaderNeverEndsScan ==
    /\ [][ScanInLoop
              => /\ scan'.pc = "loop"
                 /\ scan'.off = scan.off + (IF ScanHdr = NoHdr THEN 1 ELSE ScanHdr.frame_len)]_vars
    /\ [](scan.pc = "done" => scan.off + 4 > Len(scan.mp3))

\* ------------------------------------------------------------------------
\* C20 amended  Scanner advance: while at least 4 bytes remain, a turn at a
\* failed parse advances by exactly one byte; a turn at a parsed header
\* whose frame lies within the buffer advances by frame_len and appends the
\* frame's region when it is not empty; a turn at a parsed header whose
\* frame would extend past the end of the buffer ends the scan there, with
\* no region.  The scan ends only in that case or when fewer than 4 bytes
\* remain, and the regions it has then are the scanner's result.
\* ------------------------------------------------------------------------
C20_ScanAdvance ==
    /\ [][ScanInLoop
              => IF ScanHdr = NoHdr
                 THEN scan' = [scan EXCEPT !.off = scan.off + 1]
                 ELSE IF ScanFrameFits
                 THEN scan' = [scan EXCEPT !.off = scan.off + ScanHdr.frame_len,
                                           !.regions = scan.regions \o ScanRegion]
                 ELSE scan' = [scan EXCEPT !.pc = "done"]]_vars
    /\ [](scan.pc = "done"
              => /\ \/ scan.off + 4 > Len(scan.mp3)
                    \/ (ScanHdr # NoHdr /\ ~ScanFrameFits)
                 /\ scan.regions = collect_frames_and_regions(scan.mp3))

\* the scan of the buffer that begins with the overlong frame ended at that
\* header, 80 bytes before the end, without the region of the whole frame
\* that follows
C20_Witness ==
    /\ scan.mp3 = BufferLongFrameFirst
    /\ scan.pc = "done"
    /\ scan.off = 2
    /\ ScanHdr.frame_len = 1044
    /\ scan.regions = << >>
    /\ parse_header_at(scan.mp3, 9) # NoHdr

HpFields ==
    LET version_bits == (hp.b[2] \div 8) % 4
    IN  [sync |-> hp.b[1] = 255 /\ hp.b[2] >= 224,
         version_bits |-> version_bits,
         layer_bits |-> (hp.b[2] \div 2) % 4,
         bitrate_idx |-> hp.b[3] \div 16,
         sr_idx |-> (hp.b[3] \div 4) % 4,
         padding |-> (hp.b[3] \div 2) % 2,
         version |-> IF version_bits = 3 THEN "1"
                     ELSE IF version_bits = 2 THEN "2" ELSE "2.5"]

HpFrameLen ==
    LET f == HpFields
        coefficient == IF f.version_bits = 3 THEN 144 ELSE 72
        bitrate_kbps == BITRATE_TABLE(f.version)[f.bitrate_idx + 1]
        sample_rate == SR_TABLE(f.version)[f.sr_idx + 1]
    IN  ((coefficient * bitrate_kbps * 1000) \div sample_rate) + f.padding

\* ------------------------------------------------------------------------
\* C22  Frame length: a header with bitrate index 0 or 15 or sample-rate
\* index 3 is rejected; a header that passes the sync, layer and version
\* tests and has valid indexes is accepted exactly when
\* floor(coefficient * bitrate_kbps * 1000 / sample_rate) + padding, with
\* coefficient 144 for version 1 and 72 for versions 2 and 2.5, is at least
\* 24, and that number is its frame_len; so every accepted header has
\* frame_len >= 24.
\* ------------------------------------------------------------------------
C22_FrameLen ==
    (hp.pc = "returned" /\ Len(hp.b) = 4)
        => /\ (HpFields.bitrate_idx \in { 0, 15 } \/ HpFields.sr_idx = 3) => hp.hdr = NoHdr
           /\ (/\ HpFields.sync /\ HpFields.layer_bits = 1 /\ HpFields.version_bits # 1
               /\ HpFields.bitrate_idx \notin { 0, 15 } /\ HpFields.sr_idx # 3)
                  => /\ (hp.hdr # NoHdr) <=> (HpFrameLen >= 24)
                     /\ hp.hdr # NoHdr => hp.hdr.frame_len = HpFrameLen
           /\ hp.hdr # NoHdr
                  => /\ hp.hdr.frame_len >= 24
                     /\ HpFields.sync /\ HpFields.layer_bits = 1 /\ HpFields.version_bits # 1
                     /\ HpFields.bitrate_idx \notin { 0, 15 } /\ HpFields.sr_idx # 3

\* MPEG-2, 8 kbit/s, 24000 Hz, no padding: 72 * 8000 / 24000 = 24, accepted
C22_Witness ==
    /\ hp.pc = "returned"
    /\ hp.b = << 255, 243, 20, 0 >>
    /\ hp.hdr.frame_len = 24

\* ------------------------------------------------------------------------
\* The tag marker and the synch-safe size of bytes 6..9 (a byte the buffer
\* does not have counts 0)
\* ------------------------------------------------------------------------
HasTagMarker(mp3) ==
    Len(mp3) >= 3 /\ mp3[1] = 73 /\ mp3[2] = 68 /\ mp3[3] = 51

TagSize(mp3) ==
    LET size_byte(i) == IF i < Len(mp3) THEN mp3[i + 1] % 128 ELSE 0
    IN  size_byte(6) * 128 * 128 * 128 + size_byte(7) * 128 * 128
        + size_byte(8) * 128 + size_byte(9)

NoRegionBeforeStart ==
    \A r \in 1..Len(scan.regions) : scan.regions[r].s >= scan.start

\* ------------------------------------------------------------------------
\* C23  Tag skip as claimed: for every buffer that starts with the marker
\* "ID3", whatever its length, scanning starts at min(10 + size, buffer
\* length); otherwise at 0; no region starts before the scan start.
\* ------------------------------------------------------------------------
C23_TagSkipAnyLength ==
    scan.pc # "none"
        => /\ scan.start = (IF HasTagMarker(scan.mp3)
                            THEN Min(10 + TagSize(scan.mp3), Len(scan.mp3))
                            ELSE 0)
           /\ NoRegionBeforeStart

\* ------------------------------------------------------------------------
\* C23 amended  Tag skip: for a buffer of at least 10 bytes that starts with
\* the marker "ID3", scanning starts at min(10 + size, buffer length), size
\* being the synch-safe value (7 bits per byte) of bytes 6..9; for every
\* other buffer, one shorter than 10 bytes that starts with "ID3" included,
\* scanning starts at 0; no region starts before the scan start, so none
\* starts inside a skipped tag.
\* ------------------------------------------------------------------------
C23_TagSkip ==
    scan.pc # "none"
        => /\ scan.start = (IF HasTagMarker(scan.mp3) /\ Len(scan.mp3) >= 10
                            THEN Min(10 + TagSize(scan.mp3), Len(scan.mp3))
                            ELSE 0)
           /\ scan.off >= scan.start
           /\ NoRegionBeforeStart

\* the tag of 143 bytes was skipped with the frame it holds: the only region
\* is the one of the frame behind the tag
C23_Witness ==
    /\ scan.mp3 = BufferFrameInTag
    /\ scan.start = 143
    /\ parse_header_at(scan.mp3, 10) # NoHdr
    /\ scan.pc = "done"
    /\ scan.regions = << [s |-> 164, e |-> 216] >>

\* ------------------------------------------------------------------------
\* The offsets at which the scanner calls _parse_header_at on a buffer, and
\* the positions it reads: the 10 bytes of a tag header and the 4 bytes at
\* every such offset
\* ------------------------------------------------------------------------
RECURSIVE VisitedFrom(_, _)
VisitedFrom(mp3, off) ==
    IF ~(off + 4 <= Len(mp3)) THEN { }
    ELSE LET h == parse_header_at(mp3, off)
         IN  IF h = NoHdr THEN { off } \cup VisitedFrom(mp3, off + 1)
             ELSE IF off + h.frame_len > Len(mp3) THEN { off }
             ELSE { off } \cup VisitedFrom(mp3, off + h.frame_len)

\* ------------------------------------------------------------------------
\* C24  Scan stability: after a successful embed the scanner returns on the
\* stego file the region list it returns on the cover, hence the same
\* usable-byte total and positions; no position the scanner reads on the
\* cover differs between cover and stego file.
\* ------------------------------------------------------------------------
C24_ScanStability ==
    emb.status = "ok"
        => LET regs == EmbRegs
               stego_regs == collect_frames_and_regions(stego)
               reads == (IF skip_id3v2(cover) > 0 THEN 0..9 ELSE { })
                        \cup UNION { off..(off + 3) :
                                         off \in VisitedFrom(cover, skip_id3v2(cover)) }
           IN  /\ stego_regs = regs
               /\ total_usable_bytes(stego_regs) = total_usable_bytes(regs)
               /\ Len(stego) = Len(cover)
               /\ \A pos \in reads : stego[pos + 1] = cover[pos + 1]

\* a cover with bytes between its frames, nlsb 4, a stego file that differs
\* from the cover
C24_Witness ==
    /\ emb.status = "ok"
    /\ cover = CoverB
    /\ emb.nlsb = 4
    /\ stego # cover
    /\ collect_frames_and_regions(stego) = << [s |-> 13, e |-> 97], [s |-> 123, e |-> 199] >>

\* ------------------------------------------------------------------------
\* The offsets at which the scanner parsed a header on the buffer of the
\* scanner call
\* ------------------------------------------------------------------------
ParsedFrames ==
    { off \in VisitedFrom(scan.mp3, scan.start) : parse_header_at(scan.mp3, off) # NoHdr }

\* ------------------------------------------------------------------------
\* C25  Regions are well formed: at every moment of a scan each region
\* (s, e) has 0 <= s < e <= len(buffer); each region ends before the next
\* begins, at or before the start of the next region's frame; and no region
\* holds a byte of the 4-byte header or the side information of any frame
\* the scanner parsed.
\* ------------------------------------------------------------------------
C25_RegionsWellFormed ==
    LET regs == scan.regions
        frames == ParsedFrames
    IN  /\ \A r \in 1..Len(regs) :
               0 <= regs[r].s /\ regs[r].s < regs[r].e /\ regs[r].e <= Len(scan.mp3)
        /\ \A r \in 1..(Len(regs) - 1) :
               /\ regs[r].e < regs[r + 1].s
               /\ \E f \in frames :
                      /\ regs[r].e <= f
                      /\ regs[r + 1].s = f + 4 + parse_header_at(scan.mp3, f).side_len
        /\ \A r \in 1..Len(regs) : \A f \in frames :
               \A pos \in f..(f + 4 + parse_header_at(scan.mp3, f).side_len - 1) :
                   ~(regs[r].s <= pos /\ pos < regs[r].e)

\* two whole frames and a header whose frame is cut off: two regions, none
\* for the third header although the scanner parsed it
C25_Witness ==
    /\ scan.mp3 = CoverC
    /\ scan.pc = "done"
    /\ Len(scan.regions) = 2
    /\ ParsedFrames = { 0, 169, 362 }
    /\ scan.regions[2].e = 362

\* ------------------------------------------------------------------------
\* C26  The scanner terminates: every turn of the loop that is followed by
\* another moves the offset forward, by 1 after a failed parse and by
\* frame_len >= 24 after a parsed header; the offset never passes the end
\* of the buffer by more than it must; and every scan ends.
\* ------------------------------------------------------------------------
C26_ScanTerminates ==
    /\ [][(scan.pc = "loop" /\ scan'.pc = "loop" /\ scan' # scan)
              => IF ScanHdr = NoHdr
                 THEN scan'.off = scan.off + 1
                 ELSE scan'.off = scan.off + ScanHdr.frame_len
                      /\ ScanHdr.frame_len >= 24]_vars
    /\ [][scan.pc = "loop" => scan'.off >= scan.off]_vars
    /\ [](scan.off <= Len(scan.mp3))
    /\ <>(scan.pc = "done")

\* the scan of the 30 bytes without a header ended at offset 27, after 27
\* turns of one byte
C26_Witness ==
    /\ scan.mp3 = CoverD
    /\ scan.pc = "done"
    /\ scan.off = 27
    /\ scan.regions = << >>

\* ------------------------------------------------------------------------
\* The order of the two loops of lines 319-320 written out: the nlsb of
\* every trial and the place of its offset in cand_offsets
\* ------------------------------------------------------------------------
TrialOrder ==
    << << 1, 1 >>, << 1, 2 >>, << 2, 1 >>, << 2, 2 >>,
       << 3, 1 >>, << 3, 2 >>, << 4, 1 >>, << 4, 2 >> >>

\* The message of trial t of a call with the stream st and the two offsets,
\* if a well-formed one is stored there with the trial's nlsb n from the
\* trial's offset off on: complete header with the magic and nlsb n,
\* complete metadata that parses, complete payload with the stored checksum
TrialMessage(st, offsets, t) ==
    LET n == TrialOrder[t][1]
        off == offsets[TrialOrder[t][2]]
        r1 == BitStreamReader_read(st, n, BitStreamReader(off), HEADER_LEN_FIXED)
        fixed == r1.out
        meta_len == from_bytes_big(Slice(fixed, 16, 20))
        payload_len == from_bytes_big(Slice(fixed, 8, 12))
        r2 == BitStreamReader_read(st, n, r1.br, meta_len)
        r3 == BitStreamReader_read(st, n, r2.br, payload_len)
        valid == /\ Len(fixed) = HEADER_LEN_FIXED
                 /\ Slice(fixed, 0, 6) = MAGIC
                 /\ fixed[8] = n
                 /\ Len(r2.out) = meta_len
                 /\ json_loads(r2.out).ok
                 /\ Len(r3.out) = payload_len
                 /\ BitsToBytes4(crc32(r3.out, Zero32)) = Slice(fixed, 12, 16)
    IN  [ok |-> valid,
         flags |-> IF valid THEN fixed[7] ELSE 0,
         payload |-> IF valid THEN r3.out ELSE << >>]

\* ------------------------------------------------------------------------
\* C27  The candidates are tried in the fixed order nlsb 1, 2, 3, 4 and,
\* for each nlsb, offset 0 before the seeded offset.  The call returns at
\* the first candidate of this order that holds a well-formed message: the
\* file it returns is that message's payload, every earlier candidate
\* holds none, the candidate number never goes back, and nothing is
\* examined once the call returned.
\* ------------------------------------------------------------------------
C27_CandidateOrder ==
    /\ []((pc \in { "cand", "write" } \/ xres \in { "ok", "NotFound" })
              => cand_offsets = << 0, seeded_offset(xkey, Len(stream)) >>)
    /\ [](xres = "ok"
              => /\ cand \in 1..8
                 /\ LET m == TrialMessage(stream, cand_offsets, cand)
                    IN  /\ m.ok
                        /\ out_data = chunk_decrypt(m.payload, extract_kb(m.flags, xkey), 0)
                 /\ \A t \in 1..(cand - 1) : ~TrialMessage(stream, cand_offsets, t).ok)
    /\ [][cand' >= cand]_vars
    /\ [][pc = "done" => UNCHANGED extractVars]_vars

\* the file holds the payload (1, 252) with nlsb 2 at the seeded offset and
\* "AB" with nlsb 4 at offset 0: the call with the empty key returned the
\* former at trial 4 and never came to trial 7, which holds a message too
C27_Witness ==
    /\ xmp3 = FileTwoNlsb
    /\ xkey = KeyEmpty
    /\ pc = "done"
    /\ xres = "ok"
    /\ cand = 4
    /\ out_data = << 1, 252 >>
    /\ TrialMessage(stream, cand_offsets, 7).ok
    /\ TrialMessage(stream, cand_offsets, 7).payload = << 65, 66 >>

\* ------------------------------------------------------------------------
\* The bits a reader delivers, taken from the stream directly: bit i (from
\* 0) is one of the n low bits of stream byte start + i \div n, the highest
\* of the n first; byte j (from 1) is the 8 bits from bit 8 (j - 1) on.
\* ------------------------------------------------------------------------
LowBitsByte(st, start, n, j) ==
    LET bit(i) == (st[start + (i \div n) + 1] \div Pow2(n - 1 - (i % n))) % 2
        lo == 8 * (j - 1)
    IN  bit(lo) * 128 + bit(lo + 1) * 64 + bit(lo + 2) * 32 + bit(lo + 3) * 16
        + bit(lo + 4) * 8 + bit(lo + 5) * 4 + bit(lo + 6) * 2 + bit(lo + 7)

\* ------------------------------------------------------------------------
\* C28  The bit reader is continuous across calls.  read(a) followed by
\* read(b) returns the bytes of one read(a + b), split at a, and leaves the
\* reader as the one read leaves it; the bytes are the low bits of the
\* stream from the start offset on, in order; after K bytes the reader has
\* taken ceil(8 K / nlsb) stream bytes when the stream holds that many, and
\* otherwise it returns the whole bytes there are, fewer than asked for,
\* with its position not beyond the later of the start offset and the end
\* of the stream.
\* ------------------------------------------------------------------------
C28_ReaderContinuity ==
    LET \* stream bytes from the start offset on, the whole bytes their low
        \* bits make, and the stream bytes taken for k bytes: the least c
        \* with c * nlsb >= 8 k
        left == IF rdr.start < Len(rdr.stream) THEN Len(rdr.stream) - rdr.start ELSE 0
        whole_bytes == (left * rdr.n) \div 8
        taken(k) == (8 * k + rdr.n - 1) \div rdr.n
    IN  /\ rdr.pc = "done"
               => /\ rdr.out1 \o rdr.out2 = rdr.whole
                  /\ rdr.out1 = SubSeq(rdr.whole, 1, Min(rdr.a, Len(rdr.whole)))
                  /\ rdr.br = rdr.br_whole
                  /\ Len(rdr.whole) = Min(rdr.a + rdr.b, whole_bytes)
                  /\ \A j \in 1..Len(rdr.whole) :
                         rdr.whole[j] = LowBitsByte(rdr.stream, rdr.start, rdr.n, j)
                  /\ Len(rdr.whole) = rdr.a + rdr.b
                         => rdr.br_whole.pos = rdr.start + taken(rdr.a + rdr.b)
                  /\ Len(rdr.whole) < rdr.a + rdr.b
                         => rdr.br_whole.pos = rdr.start + left
        /\ rdr.pc \in { "first", "second", "done" }
               => /\ Len(rdr.out1) = Min(rdr.a, whole_bytes)
                  /\ rdr.br.pos <= rdr.start + left
                  /\ (rdr.pc = "first" /\ Len(rdr.out1) = rdr.a)
                         => rdr.br.pos = rdr.start + taken(rdr.a)

\* with 3 bits per byte the first byte took 3 stream bytes and left one bit
\* over; the second read began with that bit, and 6 stream bytes are taken
C28_Witness ==
    /\ rdr.pc = "done"
    /\ rdr.n = 3
    /\ rdr.a = 1
    /\ rdr.b = 1
    /\ rdr.start = 3
    /\ Len(rdr.stream) = 20
    /\ Len(rdr.out1) = 1
    /\ Len(rdr.out2) = 1
    /\ rdr.br.pos = 9
    /\ rdr.br.bits_in_buf = 2

\* ------------------------------------------------------------------------
\* C29  A failed extract_file leaves a pre-existing file intact: when a
\* file is at the resolved output path before the call and the call ends
\* with extraction-not-found, the file is still there with its content.
\* The code opens the path for writing as soon as a candidate's metadata
\* parses (line 345) and removes it when the candidate is rejected (lines
\* 367, 374): the statement does not hold.
\* ------------------------------------------------------------------------
C29_PreExistingFileKept ==
    xres = "NotFound" => out_data = PreExistingFile

\* ------------------------------------------------------------------------
\* C30  With an empty key ExtendedVigenereCipher.encrypt and .decrypt raise
\* ValueError and return no data, whatever the input: every call of the
\* class with the empty key ends in the error, with no byte string.  The
\* codec's _vigenere256_encrypt with the empty key raises nothing and
\* returns the data unchanged.
\* ------------------------------------------------------------------------
C30_EmptyKeyRaises ==
    /\ [][(vig.impl = "class" /\ vig.key = KeyEmpty /\ (CipherEncrypt \/ CipherDecryptDirect))
              => (vig'.stage = "error" /\ vig'.cur = ValueError)]_vars
    /\ []((vig.impl = "class" /\ vig.key = KeyEmpty)
              => (vig.stage \in { "plain", "error" }
                  /\ (vig.stage = "error" <=> vig.cur = ValueError)))
    /\ [](vig.impl = "class" /\ vig.stage = "error" => vig.key = KeyEmpty)
    /\ [][(vig.impl = "codec" /\ vig.key = KeyEmpty /\ CodecEncrypt)
              => (vig'.stage = "enc" /\ vig'.cur = vig.data)]_vars
    /\ [](vig.impl = "codec" => vig.stage # "error")

\* a call of the class on three bytes with the empty key ended in ValueError
C30_Witness ==
    /\ vig.impl = "class"
    /\ vig.key = KeyEmpty
    /\ vig.data = << 255, 0, 200 >>
    /\ vig.stage = "error"
    /\ vig.cur = ValueError

====
